---- MODULE Spec2Model ----
(***************************************************************************)
(* LanScope (src/webscanner/src/app/page.tsx): the scan engine of the      *)
(* page component.  The model keeps the component's state (progress,       *)
(* results, statusMessage, isScanning, the two refs) and, for every call   *)
(* of handleScan that passed validation, the closure it created (queue,    *)
(* ports, workers).                                                        *)
(*                                                                         *)
(* Texts are sequences of one-character strings.  fetch() is the opaque    *)
(* probe of the runtime: a probe that was launched settles in a later step *)
(* of its own, also after its controller has been aborted.  Everything a   *)
(* settled probe resumes (scanPort, scanHost, the worker loop up to the    *)
(* next fetch, the end of handleScan) runs in that same step.              *)
(*                                                                         *)
(* Spec is the page.  PureSpec is the pure functions above the component   *)
(* (ipToNumber, buildTargetList, parsePorts) called on their own: call     *)
(* holds one call, its argument drawn by the initial state and its result  *)
(* set by the step that applies the function.                              *)
(***************************************************************************)
EXTENDS Integers, Sequences, FiniteSets, TLC

VARIABLES progress, results, statusMessage, isScanning,
          controllers, cancelRequested, aborted, runs, call

vars == <<progress, results, statusMessage, isScanning,
          controllers, cancelRequested, aborted, runs, call>>

----------------------------------------------------------------------------
(* Bounds of the model *)

MaxRuns == 2

MaxOctet == 2

MaxConcurrency == 2

(* Program constants *)

MAX_TARGETS == 2048

MAX_PORT == 65535

----------------------------------------------------------------------------
(* Sequences and texts *)

(* A JavaScript number as far as the model needs it: NaN or an integer. *)
NaN == [nan |-> TRUE, n |-> 0]

Num(n) == [nan |-> FALSE, n |-> n]

Undefined == "undefined"

Null == "null"

Min(a, b) == IF a < b THEN a ELSE b

Range(s) == {s[i] : i \in 1..Len(s)}

DigitChars == {"0", "1", "2", "3", "4", "5", "6", "7", "8", "9"}

DigitVal(c) ==
  CASE c = "0" -> 0 [] c = "1" -> 1 [] c = "2" -> 2 [] c = "3" -> 3
    [] c = "4" -> 4 [] c = "5" -> 5 [] c = "6" -> 6 [] c = "7" -> 7
    [] c = "8" -> 8 [] c = "9" -> 9

DigitChar(d) ==
  CASE d = 0 -> "0" [] d = 1 -> "1" [] d = 2 -> "2" [] d = 3 -> "3"
    [] d = 4 -> "4" [] d = 5 -> "5" [] d = 6 -> "6" [] d = 7 -> "7"
    [] d = 8 -> "8" [] d = 9 -> "9"

WhiteSpace == {" "}

RECURSIVE TrimLeft(_)
TrimLeft(t) ==
  IF t # <<>> /\ Head(t) \in WhiteSpace THEN TrimLeft(Tail(t)) ELSE t

RECURSIVE TrimRight(_)
TrimRight(t) ==
  IF t # <<>> /\ t[Len(t)] \in WhiteSpace
    THEN TrimRight(SubSeq(t, 1, Len(t) - 1))
    ELSE t

Trim(t) == TrimRight(TrimLeft(t))

(* String.prototype.split on one-character separators: the pieces between  *)
(* separators, empty pieces included.                                      *)
RECURSIVE SplitFrom(_, _, _)
SplitFrom(t, seps, cur) ==
  IF t = <<>> THEN <<cur>>
  ELSE IF Head(t) \in seps
    THEN <<cur>> \o SplitFrom(Tail(t), seps, <<>>)
    ELSE SplitFrom(Tail(t), seps, Append(cur, Head(t)))

Split(t, seps) == SplitFrom(t, seps, <<>>)

RECURSIVE DigitsValue(_, _)
DigitsValue(t, acc) ==
  IF t = <<>> THEN acc ELSE DigitsValue(Tail(t), acc * 10 + DigitVal(Head(t)))

RECURSIVE DigitPrefix(_)
DigitPrefix(t) ==
  IF t # <<>> /\ Head(t) \in DigitChars
    THEN <<Head(t)>> \o DigitPrefix(Tail(t))
    ELSE <<>>

AllDigits(t) == t # <<>> /\ \A i \in 1..Len(t) : t[i] \in DigitChars

(* Number(text): blank text is 0, an optionally signed run of decimal      *)
(* digits is its value, any other text of the model's alphabet is NaN.     *)
Number(text) ==
  LET t == Trim(text) IN
  IF t = <<>> THEN Num(0)
  ELSE IF AllDigits(t) THEN Num(DigitsValue(t, 0))
  ELSE IF Head(t) \in {"-", "+"} /\ AllDigits(Tail(t))
    THEN (IF Head(t) = "-" THEN Num(0 - DigitsValue(Tail(t), 0))
                           ELSE Num(DigitsValue(Tail(t), 0)))
  ELSE NaN

(* Number.parseInt(text, 10): leading blanks skipped, an optional sign,    *)
(* then the longest prefix of decimal digits; NaN without a digit.         *)
ParseInt(text) ==
  LET t    == TrimLeft(text)
      neg  == t # <<>> /\ Head(t) = "-"
      body == IF t # <<>> /\ Head(t) \in {"-", "+"} THEN Tail(t) ELSE t
      ds   == DigitPrefix(body)
  IN IF ds = <<>> THEN NaN
     ELSE IF neg THEN Num(0 - DigitsValue(ds, 0)) ELSE Num(DigitsValue(ds, 0))

RECURSIVE NatToText(_)
NatToText(n) ==
  IF n < 10 THEN <<DigitChar(n)>>
  ELSE Append(NatToText(n \div 10), DigitChar(n % 10))

(* String(n) of an integer *)
NumToText(n) == IF n < 0 THEN <<"-">> \o NatToText(0 - n) ELSE NatToText(n)

(* The % of JavaScript: the remainder has the sign of the dividend *)
JsRem(x, m) == IF x >= 0 THEN x % m ELSE 0 - ((0 - x) % m)

RECURSIVE Join(_, _)
Join(parts, sep) ==
  IF parts = <<>> THEN <<>>
  ELSE IF Len(parts) = 1 THEN parts[1]
  ELSE parts[1] \o <<sep>> \o Join(Tail(parts), sep)

RECURSIVE SortedSeq(_)
SortedSeq(S) ==
  IF S = {} THEN <<>>
  ELSE LET m == CHOOSE x \in S : \A y \in S : x <= y
       IN <<m>> \o SortedSeq(S \ {m})

----------------------------------------------------------------------------
(* Pure functions of the page *)

protocolForPort(port) ==
  IF port = 443 \/ port = 8443 \/ port = 9443 THEN "https" ELSE "http"

ErrInvalidIp == "IP invalido"

ErrInverted == "O IP final deve ser maior ou igual ao inicial."

ErrTooLarge == "Limite maximo de 2048 enderecos por varredura excedido."

ErrNoPorts == "Informe ao menos uma porta para varredura."

ErrNoTargets == "Nenhum IP encontrado dentro do intervalo."

ErrArrayLength == "Invalid array length"

MsgInterrupted == "Varredura interrompida pelo usuario."

MsgDone == "Varredura concluida."

(* ipToNumber: [ok |-> TRUE, value |-> n], or [ok |-> FALSE, error |-> m]  *)
(* for the Error it throws.                                                *)
ipToNumber(ip) ==
  LET raw   == Split(Trim(ip), {"."})
      parts == [i \in 1..Len(raw) |-> Number(raw[i])]
  IN IF Len(parts) # 4 \/ \E i \in 1..Len(parts) : parts[i].nan
       THEN [ok |-> FALSE, error |-> ErrInvalidIp]
       ELSE [ok |-> TRUE,
             value |-> parts[1].n * 256 * 256 * 256 + parts[2].n * 256 * 256
                       + parts[3].n * 256 + parts[4].n]

numberToIp(value) ==
  LET a == JsRem(value \div (256 * 256 * 256), 256)
      b == JsRem(value \div (256 * 256), 256)
      c == JsRem(value \div 256, 256)
      d == JsRem(value, 256)
  IN Join(<<NumToText(a), NumToText(b), NumToText(c), NumToText(d)>>, ".")

parsePorts(value) ==
  LET chunks == Split(value, {",", " "})
      kept   == {i \in 1..Len(chunks) : Trim(chunks[i]) # <<>>}
      parsed == {ParseInt(Trim(chunks[i])) : i \in kept}
  IN SortedSeq({p.n : p \in {q \in parsed :
                                 ~q.nan /\ q.n > 0 /\ q.n <= MAX_PORT}})

(* buildTargetList starting its list one address after `start` *)
buildTargetListFromNext(start, end) ==
  LET s == ipToNumber(start)
      e == ipToNumber(end)
  IN IF ~s.ok THEN [ok |-> FALSE, error |-> s.error]
     ELSE IF ~e.ok THEN [ok |-> FALSE, error |-> e.error]
     ELSE IF e.value < s.value THEN [ok |-> FALSE, error |-> ErrInverted]
     ELSE IF e.value - s.value + 1 > MAX_TARGETS
       THEN [ok |-> FALSE, error |-> ErrTooLarge]
     ELSE [ok |-> TRUE,
           list |-> [i \in 1..(e.value - s.value + 1) |->
                       numberToIp(s.value + i)]]

(* buildTargetList refusing a range of exactly MAX_TARGETS addresses *)
buildTargetListCapExclusive(start, end) ==
  LET s == ipToNumber(start)
      e == ipToNumber(end)
  IN IF ~s.ok THEN [ok |-> FALSE, error |-> s.error]
     ELSE IF ~e.ok THEN [ok |-> FALSE, error |-> e.error]
     ELSE IF e.value < s.value THEN [ok |-> FALSE, error |-> ErrInverted]
     ELSE IF e.value - s.value + 1 >= MAX_TARGETS
       THEN [ok |-> FALSE, error |-> ErrTooLarge]
     ELSE [ok |-> TRUE,
           list |-> [i \in 1..(e.value - s.value + 1) |->
                       numberToIp(s.value + i - 1)]]

buildTargetList(start, end) ==
  LET s == ipToNumber(start)
      e == ipToNumber(end)
  IN IF ~s.ok THEN [ok |-> FALSE, error |-> s.error]
     ELSE IF ~e.ok THEN [ok |-> FALSE, error |-> e.error]
     ELSE IF e.value < s.value THEN [ok |-> FALSE, error |-> ErrInverted]
     ELSE IF e.value - s.value + 1 > MAX_TARGETS
       THEN [ok |-> FALSE, error |-> ErrTooLarge]
     ELSE [ok |-> TRUE,
           list |-> [i \in 1..(e.value - s.value + 1) |->
                       numberToIp(s.value + i - 1)]]

(* The ways a fetch() settles: a response, or the error it rejects with. *)
FetchOutcomes == {"response", "AbortError", "TypeErrorFetch", "OtherError"}

mapErrorToStatus(error) ==
  IF error = "AbortError" THEN "timeout"
  ELSE IF error = "TypeErrorFetch" THEN "closed"
  ELSE "error"

(* (error as Error)?.message of a rejected fetch or a thrown fault *)
MessageOf(error) ==
  IF error = "OtherError" THEN "network error" ELSE "internal fault"

(* scanPort attaching the error's message to every failed probe *)
scanPortAlwaysMessage(port, outcome) ==
  IF outcome = "response"
    THEN [port |-> port, protocol |-> protocolForPort(port), status |-> "open",
          latency |-> "ms", errorMessage |-> Undefined]
    ELSE [port |-> port, protocol |-> protocolForPort(port),
          status |-> mapErrorToStatus(outcome), latency |-> Undefined,
          errorMessage |-> MessageOf(outcome)]

(* What scanPort returns for a fetch that settled with `outcome` *)
scanPort(port, outcome) ==
  IF outcome = "response"
    THEN [port |-> port, protocol |-> protocolForPort(port), status |-> "open",
          latency |-> "ms", errorMessage |-> Undefined]
    ELSE LET status == mapErrorToStatus(outcome)
         IN [port |-> port, protocol |-> protocolForPort(port),
             status |-> status, latency |-> Undefined,
             errorMessage |-> IF status = "error" THEN MessageOf(outcome)
                                                  ELSE Undefined]

(* scanHost counting a host as responding only when a port is open *)
scanHostOpenOnly(ip, portResults) ==
  [ip |-> ip, ports |-> portResults,
   responded |-> \E i \in 1..Len(portResults) :
                    portResults[i].status = "open"]

(* What scanHost returns once every scanPort of the host has returned *)
scanHost(ip, portResults) ==
  [ip |-> ip, ports |-> portResults,
   responded |-> \/ \E i \in 1..Len(portResults) :
                        portResults[i].status = "open"
                 \/ \A i \in 1..Len(portResults) :
                        portResults[i].status = "timeout"]

(* failedHost without the error's message on its ports *)
failedHostNoMessage(ip, ports, error) ==
  [ip |-> ip, responded |-> FALSE,
   ports |-> [i \in 1..Len(ports) |->
                [port |-> ports[i], protocol |-> protocolForPort(ports[i]),
                 status |-> "error", latency |-> Undefined,
                 errorMessage |-> Undefined]]]

(* The HostResult of the worker's catch branch *)
failedHost(ip, ports, error) ==
  [ip |-> ip, responded |-> FALSE,
   ports |-> [i \in 1..Len(ports) |->
                [port |-> ports[i], protocol |-> protocolForPort(ports[i]),
                 status |-> "error", latency |-> Undefined,
                 errorMessage |-> MessageOf(error)]]]

----------------------------------------------------------------------------
(* Inputs: what the form holds when "Iniciar varredura" is clicked *)

Ip(d) == <<"0", ".", "0", ".", "0", ".", DigitChar(d)>>

BaseConfig ==
  [startIp |-> Ip(1), endIp |-> Ip(1), portsInput |-> <<"8", "0">>,
   concurrency |-> 1]

(* Inputs that pass validation: 1..MaxOctet targets with one port and      *)
(* 1..MaxConcurrency workers; one target with two ports; and the           *)
(* concurrency field holding 0 or -1                                       *)
ValidConfigs ==
  [startIp : {Ip(1)}, endIp : {Ip(d) : d \in 1..MaxOctet},
   portsInput : {<<"8", "0">>}, concurrency : 1..MaxConcurrency]
    \cup {[BaseConfig EXCEPT !.portsInput = <<"4", "4", "3", ",", " ", "8", "0">>],
          [BaseConfig EXCEPT !.concurrency = 0],
          [BaseConfig EXCEPT !.concurrency = 0 - 1]}

(* Inputs that fail it: a malformed address, a short one, an inverted      *)
(* range, a range above the cap, no port                                   *)
InvalidConfigs ==
  {[BaseConfig EXCEPT !.startIp = <<"0", ".", "0", ".", "a", ".", "1">>],
   [BaseConfig EXCEPT !.endIp = <<"0", ".", "0", ".", "1">>],
   [BaseConfig EXCEPT !.startIp = Ip(2)],
   [BaseConfig EXCEPT !.endIp = <<"0", ".", "0", ".", "9", ".", "0">>],
   [BaseConfig EXCEPT !.portsInput = <<"x", ",">>]}

Configs == ValidConfigs \cup InvalidConfigs

NoError == "none"

(* The Error handleScan throws before it touches the scan state, if any *)
ScanError(cfg) ==
  IF Len(parsePorts(cfg.portsInput)) = 0 THEN ErrNoPorts
  ELSE LET t == buildTargetList(cfg.startIp, cfg.endIp)
       IN IF ~t.ok THEN t.error
          ELSE IF Len(t.list) = 0 THEN ErrNoTargets
          ELSE NoError

ValidationErrors ==
  {ErrNoPorts, ErrInvalidIp, ErrInverted, ErrTooLarge, ErrNoTargets}

(* What handleScan computes from its input before it touches the state *)
Validate(cfg) ==
  LET err == ScanError(cfg)
  IN [cfg     |-> cfg,
      error   |-> err,
      ports   |-> parsePorts(cfg.portsInput),
      targets |-> IF err = NoError
                    THEN buildTargetList(cfg.startIp, cfg.endIp).list
                    ELSE <<>>]

(* Every input of the model with what validation makes of it *)
Parsed == {Validate(cfg) : cfg \in Configs}

----------------------------------------------------------------------------
(* The state as one record, so that the steps of a handler compose *)

St ==
  [progress |-> progress, results |-> results,
   statusMessage |-> statusMessage, isScanning |-> isScanning,
   controllers |-> controllers, cancelRequested |-> cancelRequested,
   aborted |-> aborted, runs |-> runs]

Becomes(s) ==
  /\ progress' = s.progress
  /\ results' = s.results
  /\ statusMessage' = s.statusMessage
  /\ isScanning' = s.isScanning
  /\ controllers' = s.controllers
  /\ cancelRequested' = s.cancelRequested
  /\ aborted' = s.aborted
  /\ runs' = s.runs
  /\ call' = call

Pending ==
  [port |-> 0, protocol |-> "http", status |-> "pending",
   latency |-> Undefined, errorMessage |-> Undefined]

NoIp == <<>>

IdleWorker == [pc |-> "done", ip |-> NoIp, res |-> <<>>, fault |-> FALSE]

(* The probes of worker w of run r: one AbortController per port *)
ProbesOf(r, w, n) == {<<r, w, i>> : i \in 1..n}

(* No call of a pure function on its own *)
NoCall == [fn |-> "none", arg |-> <<>>, done |-> TRUE, out |-> Undefined]

(* The component as useState and useRef construct it *)
Mounted ==
  /\ progress = [current |-> 0, total |-> 0]
  /\ results = <<>>
  /\ statusMessage = Null
  /\ isScanning = FALSE
  /\ controllers = {}
  /\ cancelRequested = FALSE
  /\ aborted = {}
  /\ runs = <<>>

Init == Mounted /\ call = NoCall

(* controllersRef.current.forEach(abort); controllersRef.current = [] *)
AbortAll(s) ==
  [s EXCEPT !.aborted = @ \cup s.controllers, !.controllers = {}]

(* The finally block of handleScan *)
ScanFinally(s) ==
  [AbortAll(s) EXCEPT !.isScanning = FALSE, !.cancelRequested = FALSE]

(* One pass of the worker's while loop, up to the await of scanHost:       *)
(* `fault` says that launching the host's probes throws.                   *)
WorkerLoop(s, r, w, fault) ==
  LET run == s.runs[r] IN
  IF Len(run.queue) > 0 /\ ~s.cancelRequested
    THEN LET ip == Head(run.queue)
         IN [s EXCEPT
               !.runs[r].queue = Tail(run.queue),
               !.runs[r].taken = Append(@, ip),
               !.runs[r].workers[w] =
                  [pc |-> "scan", ip |-> ip,
                   res |-> [i \in 1..Len(run.ports) |-> Pending],
                   fault |-> fault],
               !.controllers =
                  IF fault THEN @ ELSE @ \cup ProbesOf(r, w, Len(run.ports))]
    ELSE [s EXCEPT !.runs[r].workers[w] = IdleWorker]

AllWorkersDone(run) ==
  \A w \in 1..Len(run.workers) : run.workers[w].pc = "done"

(* What is left of a call's closure once the call has returned: nothing    *)
(* but the history of how it went.                                         *)
Returned(run, outcome) ==
  [run EXCEPT !.queue = <<>>, !.targets = <<>>, !.ports = <<>>,
              !.taken = <<>>, !.concurrency = 0,
              !.active = FALSE, !.outcome = outcome]

(* handleScan after `await Promise.all(workers)` *)
ScanEnd(s, r) ==
  IF s.runs[r].active /\ AllWorkersDone(s.runs[r])
    THEN LET s1 == IF ~s.cancelRequested
                     THEN [s EXCEPT !.statusMessage = MsgDone] ELSE s
             s2 == ScanFinally(s1)
         IN [s2 EXCEPT !.runs[r] =
                          Returned(@, IF ~s.cancelRequested THEN "completed"
                                                            ELSE "cancelled")]
    ELSE s

(* The worker after scanHost settled: append, count, loop *)
HostDone(s, r, w, hostResult, fault) ==
  LET s1 == [s EXCEPT !.results = Append(@, hostResult),
                      !.progress = [current |-> @.current + 1,
                                    total |-> @.total]]
  IN ScanEnd(WorkerLoop(s1, r, w, fault), r)

RECURSIVE LaunchWorkers(_, _, _, _, _)
LaunchWorkers(s, r, w, n, faults) ==
  IF w > n THEN s
  ELSE LaunchWorkers(WorkerLoop(s, r, w, w \in faults), r, w + 1, n, faults)

(* The closure of one handleScan call.  active, taken, cancelled and       *)
(* outcome are history: whether the call is still under way, the addresses *)
(* its workers dequeued, whether cancel() was called during it, how it     *)
(* ended.                                                                  *)
NewRun(p, cfg, n) ==
  [queue |-> p.targets, targets |-> p.targets, ports |-> p.ports,
   concurrency |-> cfg.concurrency,
   workers |-> [w \in 1..n |-> IdleWorker],
   active |-> TRUE, taken |-> <<>>, cancelled |-> FALSE, outcome |-> "none"]

(* handleScan resetting the scan state before it validates its input *)
handleScanResetsFirst(s, p, faults) ==
  LET s1 == [s EXCEPT !.statusMessage = Null,
                      !.cancelRequested = FALSE,
                      !.progress = [current |-> 0, total |-> Len(p.targets)],
                      !.results = <<>>,
                      !.isScanning = TRUE]
      n  == Min(p.cfg.concurrency, Len(p.targets))
      r  == Len(s.runs) + 1
  IN IF p.error # NoError
       THEN ScanFinally([s1 EXCEPT !.statusMessage = p.error])
     ELSE IF n < 0
       THEN ScanFinally(
              [s1 EXCEPT !.statusMessage = ErrArrayLength,
                         !.runs = Append(@,
                            Returned(NewRun(p, p.cfg, 0), "failed"))])
     ELSE ScanEnd(
            LaunchWorkers([s1 EXCEPT !.runs = Append(@, NewRun(p, p.cfg, n))],
                          r, 1, n, faults),
            r)

(* handleScan, up to its first await (or to its end when it throws) *)
handleScan(s, p, faults) ==
  LET cfg == p.cfg
      s0 == [s EXCEPT !.statusMessage = Null]
  IN IF p.error # NoError
       THEN ScanFinally([s0 EXCEPT !.statusMessage = p.error])
       ELSE
         LET s1 == [s0 EXCEPT !.cancelRequested = FALSE,
                              !.progress = [current |-> 0,
                                            total |-> Len(p.targets)],
                              !.results = <<>>,
                              !.isScanning = TRUE]
             n  == Min(cfg.concurrency, Len(p.targets))
             r  == Len(s.runs) + 1
         IN IF n < 0
              THEN ScanFinally(
                     [s1 EXCEPT !.statusMessage = ErrArrayLength,
                                !.runs = Append(@,
                                   Returned(NewRun(p, cfg, 0), "failed"))])
              ELSE ScanEnd(
                     LaunchWorkers(
                       [s1 EXCEPT !.runs = Append(@, NewRun(p, cfg, n))],
                       r, 1, n, faults),
                     r)

(* handleCancel also resetting the progress counter *)
handleCancelResetsProgress(s) ==
  [AbortAll([s EXCEPT !.cancelRequested = TRUE])
     EXCEPT !.statusMessage = MsgInterrupted, !.isScanning = FALSE,
            !.progress = [current |-> 0, total |-> 0]]

(* handleCancel *)
handleCancel(s) ==
  [AbortAll([s EXCEPT !.cancelRequested = TRUE])
     EXCEPT !.statusMessage = MsgInterrupted, !.isScanning = FALSE]

(* History: the runs that were under way when cancel() was called *)
MarkCancelled(s) ==
  [s EXCEPT !.runs = [r \in 1..Len(s.runs) |->
                        IF s.runs[r].active
                          THEN [s.runs[r] EXCEPT !.cancelled = TRUE]
                          ELSE s.runs[r]]]

----------------------------------------------------------------------------
(* Actions *)

(* "Iniciar varredura", disabled while isScanning *)
Start(p, faults) ==
  /\ ~isScanning
  /\ p.error = NoError => Len(runs) < MaxRuns
  /\ faults \subseteq 1..Min(p.cfg.concurrency, Len(p.targets))
  /\ Becomes(handleScan(St, p, faults))

(* "Cancelar", disabled unless isScanning *)
Cancel ==
  /\ isScanning
  /\ Becomes(MarkCancelled(handleCancel(St)))

(* "Limpar resultados", shown when there are results *)
Clear ==
  /\ Len(results) > 0
  /\ results' = <<>>
  /\ UNCHANGED <<progress, statusMessage, isScanning, controllers,
                 cancelRequested, aborted, runs, call>>

InFlight(r, w) ==
  /\ r \in 1..Len(runs)
  /\ w \in 1..Len(runs[r].workers)
  /\ runs[r].workers[w].pc = "scan"

(* ProbeSettle with the host's port results assembled in the order the    *)
(* probes settle instead of by port index                                  *)
ProbeSettleByArrival(r, w, i, outcome, fault) ==
  /\ InFlight(r, w)
  /\ ~runs[r].workers[w].fault
  /\ i \in 1..Len(runs[r].ports)
  /\ \A j \in 1..Len(runs[r].ports) :
       runs[r].workers[w].res[j].port # runs[r].ports[i]
  /\ <<r, w, i>> \in aborted => outcome = "AbortError"
  /\ LET wk   == runs[r].workers[w]
         slot == 1 + Cardinality({j \in 1..Len(wk.res) : wk.res[j] # Pending})
         res  == [wk.res EXCEPT ![slot] = scanPort(runs[r].ports[i], outcome)]
         s1   == [St EXCEPT !.controllers = @ \ {<<r, w, i>>},
                            !.aborted = @ \ {<<r, w, i>>},
                            !.runs[r].workers[w].res = res]
     IN IF \E j \in 1..Len(res) : res[j] = Pending
          THEN Becomes(s1)
          ELSE Becomes(HostDone(s1, r, w, scanHost(wk.ip, res), fault))

(* The fetch of one probe settles; an aborted one rejects with AbortError *)
ProbeSettle(r, w, i, outcome, fault) ==
  /\ InFlight(r, w)
  /\ ~runs[r].workers[w].fault
  /\ i \in 1..Len(runs[r].ports)
  /\ runs[r].workers[w].res[i] = Pending
  /\ <<r, w, i>> \in aborted => outcome = "AbortError"
  /\ LET wk  == runs[r].workers[w]
         res == [wk.res EXCEPT ![i] = scanPort(runs[r].ports[i], outcome)]
         s1  == [St EXCEPT !.controllers = @ \ {<<r, w, i>>},
                           !.aborted = @ \ {<<r, w, i>>},
                           !.runs[r].workers[w].res = res]
     IN IF \E j \in 1..Len(res) : res[j] = Pending
          THEN Becomes(s1)
          ELSE Becomes(HostDone(s1, r, w, scanHost(wk.ip, res), fault))

(* scanHost rejects: the worker's catch branch *)
HostFault(r, w, fault) ==
  /\ InFlight(r, w)
  /\ runs[r].workers[w].fault
  /\ Becomes(HostDone(St, r, w,
               failedHost(runs[r].workers[w].ip, runs[r].ports, "Fault"),
               fault))

Next ==
  \/ \E p \in Parsed, faults \in SUBSET (1..MaxConcurrency) :
       Start(p, faults)
  \/ Cancel
  \/ Clear
  \/ \E r \in 1..MaxRuns, w \in 1..MaxConcurrency, i \in 1..2,
        outcome \in FetchOutcomes, fault \in BOOLEAN :
       ProbeSettle(r, w, i, outcome, fault)
  \/ \E r \in 1..MaxRuns, w \in 1..MaxConcurrency, fault \in BOOLEAN :
       HostFault(r, w, fault)

Spec == Init /\ [][Next]_vars

----------------------------------------------------------------------------
(* The pure functions called on their own *)

(* Port texts have up to MaxTokens tokens *)
MaxTokens == 2

(* What a field of an address may hold: octets, numbers that are not       *)
(* octets, an empty field, a letter, an octet with a leading zero          *)
ComponentTexts ==
  {<<"0">>, <<"1">>, <<"2", "5", "5">>, <<"2", "5", "6">>, <<"-", "1">>,
   <<>>, <<"a">>, <<"0", "1">>}

(* Arguments of ipToNumber: four fields, and texts of one, three and five  *)
(* fields.  The first field stays below 128.                               *)
AddressTexts ==
  {Join(<<a, b, c, d>>, ".") :
     a \in ComponentTexts \ {<<"2", "5", "5">>, <<"2", "5", "6">>},
     b \in ComponentTexts, c \in ComponentTexts, d \in ComponentTexts}
    \cup {<<"1">>,
          <<"0", ".", "0", ".", "1">>,
          <<"0", ".", "0", ".", "0", ".", "0", ".", "1">>,
          <<" ", "0", ".", "0", ".", "0", ".", "1", " ">>}

Addr(c, d) == Join(<<<<"0">>, <<"0">>, NatToText(c), NatToText(d)>>, ".")

(* Arguments of buildTargetList: boundaries around a carry into the third  *)
(* field and around the cap, and boundaries that are not dotted quads      *)
BoundaryTexts ==
  {Addr(0, 0), Addr(0, 1), Addr(0, 5), Addr(0, 255), Addr(1, 1),
   Addr(7, 255), Addr(8, 0), Addr(9, 0),
   <<"0", ".", "0", ".", "0", ".", "0", "1">>,
   <<"0", ".", "0", ".", "0", ".", "2", "5", "6">>,
   <<"0", ".", "0", ".", "a", ".", "1">>}

TokenTexts ==
  {<<"2", "2">>, <<"8", "0">>, <<"4", "4", "3">>,
   <<"6", "5", "5", "3", "5">>, <<"6", "5", "5", "3", "6">>,
   <<"0">>, <<"-", "1">>, <<"a", "b", "c">>,
   <<"8", "0", "a", "b", "c">>, <<>>}

SeparatorTexts == {<<",">>, <<" ">>, <<",", " ">>}

RECURSIVE TokenRuns(_)
TokenRuns(n) ==
  IF n = 1 THEN TokenTexts
  ELSE {t \o sep \o u :
          t \in TokenRuns(n - 1), sep \in SeparatorTexts, u \in TokenTexts}

(* Arguments of parsePorts: up to MaxTokens tokens, and                    *)
(* "80, 443 ,, abc, 99999, 22"                                             *)
PortTexts ==
  UNION {TokenRuns(n) : n \in 1..MaxTokens}
    \cup {<<"8", "0", ",", " ", "4", "4", "3", " ", ",", ",", " ",
            "a", "b", "c", ",", " ", "9", "9", "9", "9", "9", ",", " ",
            "2", "2">>}

NewCall(fn, arg) == [fn |-> fn, arg |-> arg, done |-> FALSE, out |-> Undefined]

PureInit ==
  /\ Mounted
  /\ \/ call \in {NewCall("ipToNumber", t) : t \in AddressTexts}
     \/ call \in {NewCall("buildTargetList", <<a, b>>) :
                    a \in BoundaryTexts, b \in BoundaryTexts}
     \/ call \in {NewCall("parsePorts", t) : t \in PortTexts}

Returns(out) ==
  /\ call' = [call EXCEPT !.done = TRUE, !.out = out]
  /\ UNCHANGED <<progress, results, statusMessage, isScanning, controllers,
                 cancelRequested, aborted, runs>>

CallIpToNumber ==
  /\ call.fn = "ipToNumber"
  /\ ~call.done
  /\ Returns(ipToNumber(call.arg))

CallBuildTargetList ==
  /\ call.fn = "buildTargetList"
  /\ ~call.done
  /\ Returns(buildTargetList(call.arg[1], call.arg[2]))

CallParsePorts ==
  /\ call.fn = "parsePorts"
  /\ ~call.done
  /\ Returns(parsePorts(call.arg))

PureNext ==
  \/ CallIpToNumber
  \/ CallBuildTargetList
  \/ CallParsePorts

PureSpec == PureInit /\ [][PureNext]_vars

----------------------------------------------------------------------------
(* Vocabulary of the properties *)

RunIds == 1..Len(runs)

IsPrefix(a, b) == Len(a) <= Len(b) /\ SubSeq(b, 1, Len(a)) = a

(* No handleScan call is under way and the page shows none *)
Idle == ~isScanning /\ \A r \in RunIds : ~runs[r].active

(* The step is a step of a worker of run r *)
WorkerStep(r) ==
  \/ \E w \in 1..MaxConcurrency, i \in 1..2, outcome \in FetchOutcomes,
        fault \in BOOLEAN : ProbeSettle(r, w, i, outcome, fault)
  \/ \E w \in 1..MaxConcurrency, fault \in BOOLEAN : HostFault(r, w, fault)

(* The page with every launched probe settling eventually and every        *)
(* resumed worker running: no run's workers wait forever.                  *)
Fairness == \A r \in 1..MaxRuns : WF_vars(WorkerStep(r))

FairSpec == Spec /\ Fairness

(* How many entries of the result store are for address ip *)
Recorded(store, ip) == Cardinality({i \in 1..Len(store) : store[i].ip = ip})

IsFailedHost(h, ip, ports) ==
  /\ h.ip = ip
  /\ h.responded = FALSE
  /\ Len(h.ports) = Len(ports)
  /\ \A i \in 1..Len(ports) :
       /\ h.ports[i].port = ports[i]
       /\ h.ports[i].status = "error"
       /\ h.ports[i].errorMessage = MessageOf("Fault")

----------------------------------------------------------------------------
(* C1: a run started with N >= 1 targets and a concurrency >= 1 that is    *)
(* never cancelled ends with exactly N entries in the result store, one    *)
(* for each target, and with progress = (N, N).                            *)
C1_UncancelledRunRecordsEveryTarget ==
  [][\A r \in RunIds :
       (/\ runs[r].active
        /\ ~runs'[r].active
        /\ ~runs'[r].cancelled
        /\ runs[r].concurrency >= 1)
       => LET n == Len(runs[r].targets)
          IN /\ Len(results') = n
             /\ \A k \in 1..n : Recorded(results', runs[r].targets[k]) = 1
             /\ progress' = [current |-> n, total |-> n]]_vars

(* C2: once cancel() was called during a run, completedHosts <= totalHosts *)
(* in every later state, and the run does not end as Completed.            *)
C2_CancelledRunNeverCompletes ==
  \A r \in RunIds :
    runs[r].cancelled =>
      /\ progress.current <= progress.total
      /\ runs[r].outcome # "completed"

(* C3: after cancel() was called during a run, no worker of that run       *)
(* dequeues another address: its queue is never shortened again.           *)
C3_NoDequeueAfterCancel ==
  [][\A r \in RunIds :
       (runs[r].cancelled /\ runs'[r].active)
         => runs'[r].queue = runs[r].queue]_vars

(* C4: a start() whose input fails validation launches no worker, dequeues *)
(* nothing, issues no probe, leaves progress and results alone, produces   *)
(* the one message of the failure and leaves isScanning false.             *)
C4_FailedValidationStartsNothing ==
  [][\A p \in Parsed :
       (p.error # NoError /\ Start(p, {}))
       => /\ p.error \in ValidationErrors
          /\ statusMessage' = p.error
          /\ isScanning' = FALSE
          /\ runs' = runs
          /\ controllers' \subseteq controllers
          /\ progress' = progress
          /\ results' = results]_vars

(* C4 witness: a rejected start() after an earlier run *)
C4_Witness ==
  /\ statusMessage = ErrTooLarge
  /\ ~isScanning
  /\ Len(runs) = 1
  /\ progress.total > 0

(* C5: when processing a host raises an internal error, the worker appends *)
(* one HostResult for it with every requested port in status error and the *)
(* error's message, counts it once, goes on with the next queued address   *)
(* (unless cancellation was requested), leaves the other workers alone and *)
(* the run is not failed.                                                  *)
C5_FaultIsContainedToItsHost ==
  [][\A r \in RunIds : \A w \in 1..Len(runs[r].workers) :
       (\E fault \in BOOLEAN : HostFault(r, w, fault))
       => /\ Len(results') = Len(results) + 1
          /\ IsPrefix(results, results')
          /\ IsFailedHost(results'[Len(results')], runs[r].workers[w].ip,
                          runs[r].ports)
          /\ progress' = [current |-> progress.current + 1,
                          total |-> progress.total]
          /\ (Len(runs[r].queue) > 0 /\ ~cancelRequested)
               => /\ runs'[r].workers[w].pc = "scan"
                  /\ runs'[r].workers[w].ip = Head(runs[r].queue)
          /\ \A v \in 1..Len(runs[r].workers) :
               v # w => runs'[r].workers[v] = runs[r].workers[v]
          /\ runs'[r].outcome # "failed"
          /\ statusMessage' \in {statusMessage, MsgDone}]_vars

(* C5 witness: a faulted host is recorded and a later host after it *)
C5_Witness ==
  \E r \in RunIds : \E i \in 1..Len(results) :
    /\ i < Len(results)
    /\ runs[r].active
    /\ IsFailedHost(results[i], results[i].ip, runs[r].ports)
    /\ results[i].ip \in Range(runs[r].targets)
    /\ progress.current = Len(results)

(* C6: once a run was cancelled and a newer run is under way, no step of   *)
(* the earlier run changes the results, the progress counter or the        *)
(* cancellation flag, or aborts a probe of the newer run.                  *)
C6_SupersededRunTouchesNothing ==
  [][\A r \in RunIds :
       (/\ r < Len(runs)
        /\ runs[r].cancelled
        /\ runs[Len(runs)].active
        /\ WorkerStep(r))
       => /\ results' = results
          /\ progress' = progress
          /\ cancelRequested' = cancelRequested
          /\ \A pr \in aborted' \ aborted : pr[1] # Len(runs)]_vars

(* C7: handleCancel applied twice leaves the state as one application      *)
(* left it, and applied when Idle it changes nothing.                      *)
C7_CancelIdempotentAndIdleNoop ==
  LET once == handleCancel(St)
  IN /\ handleCancel(once) = once
     /\ Idle => once = St

(* C8: while a run is under way the result store only grows by appending   *)
C8_ResultsAppendOnlyWhileRunning ==
  [][(isScanning /\ isScanning') => IsPrefix(results, results')]_vars

(* C9: progress changes only when a run starts, to (0, N), or when a       *)
(* worker has finished one host, by exactly one; cancel() leaves it alone. *)
C9_ProgressCountsHostsOneByOne ==
  [][/\ progress' # progress =>
          \/ /\ \E p \in Parsed, faults \in SUBSET (1..MaxConcurrency) :
                  p.error = NoError /\ Start(p, faults)
             /\ progress'.current = 0
             /\ Len(runs') = Len(runs) + 1
          \/ /\ progress' = [current |-> progress.current + 1,
                             total |-> progress.total]
             /\ Len(results') = Len(results) + 1
             /\ \E r \in RunIds : \E w \in 1..Len(runs[r].workers) :
                  /\ runs[r].workers[w].pc = "scan"
                  /\ results'[Len(results')].ip = runs[r].workers[w].ip
                  /\ WorkerStep(r)
     /\ Cancel => progress' = progress]_vars

(* C9 witness: hosts were counted and cancel() kept the count *)
C9_Witness ==
  /\ \E r \in RunIds : runs[r].cancelled /\ runs[r].active
  /\ cancelRequested
  /\ progress.current >= 1
  /\ progress.current < progress.total

(* C10: in every state each target of a run was dequeued at most once and  *)
(* has at most one HostResult in the result store.                         *)
C10_EachAddressOnce ==
  \A r \in RunIds :
    /\ \A i, j \in 1..Len(runs[r].taken) :
         i # j => runs[r].taken[i] # runs[r].taken[j]
    /\ \A k \in 1..Len(runs[r].targets) :
         Recorded(results, runs[r].targets[k]) <= 1

(* C11: every HostResult in the result store has responded true exactly    *)
(* when one of its ports is open or all of its ports are timeout.          *)
C11_RespondedIffOpenOrAllTimeout ==
  \A k \in 1..Len(results) :
    LET h == results[k]
    IN h.responded <=>
         \/ \E i \in 1..Len(h.ports) : h.ports[i].status = "open"
         \/ \A i \in 1..Len(h.ports) : h.ports[i].status = "timeout"

(* C11 witness: the store holds a host whose probe was aborted by cancel() *)
(* (all timeout, responded) and a host of the fault path (not responded).  *)
C11_Witness ==
  /\ Len(results) = 2
  /\ \E r \in RunIds : runs[r].cancelled
  /\ \E k \in 1..2 :
       /\ results[k].responded
       /\ \A i \in 1..Len(results[k].ports) :
            results[k].ports[i].status = "timeout"
  /\ \E k \in 1..2 :
       /\ ~results[k].responded
       /\ \A i \in 1..Len(results[k].ports) :
            results[k].ports[i].status = "error"

(* C12: whenever a worker records a HostResult, its ports sequence has one *)
(* entry for each requested port in the order of the requested port set    *)
(* (ascending, as parsePorts returns it), whatever the order in which the  *)
(* host's probes settled; and while the host is in flight every port       *)
(* result that has arrived sits at the index of its port.                  *)
C12_PortsInRequestedOrder ==
  [][\A r \in RunIds : \A w \in 1..Len(runs[r].workers) :
       (\/ \E i \in 1..2, outcome \in FetchOutcomes, fault \in BOOLEAN :
             ProbeSettle(r, w, i, outcome, fault)
        \/ \E fault \in BOOLEAN : HostFault(r, w, fault))
       => LET ports == runs[r].ports
              wk    == runs[r].workers[w]
          IN /\ \A i, j \in 1..Len(ports) : i < j => ports[i] < ports[j]
             /\ Len(results') > Len(results) =>
                  LET h == results'[Len(results')]
                  IN /\ h.ip = wk.ip
                     /\ Len(h.ports) = Len(ports)
                     /\ \A i \in 1..Len(ports) : h.ports[i].port = ports[i]
             /\ Len(results') = Len(results) =>
                  \A i \in 1..Len(ports) :
                    LET pr == runs'[r].workers[w].res[i]
                    IN pr # Pending => pr.port = ports[i]]_vars

(* C12 witness: of a host probed on ports 80 and 443, the probe of 443 has *)
(* settled and the probe of 80 has not.                                    *)
C12_Witness ==
  \E r \in RunIds : \E w \in 1..Len(runs[r].workers) :
    /\ runs[r].workers[w].pc = "scan"
    /\ runs[r].ports = <<80, 443>>
    /\ runs[r].workers[w].res[1] = Pending
    /\ runs[r].workers[w].res[2] # Pending
    /\ runs[r].workers[w].res[2].port = 443

(* C13: every run that passed validation and entered Running has a         *)
(* concurrency within [1,128] when its workers are created and has at      *)
(* least one worker.                                                       *)
C13_StartedRunHasWorker ==
  [][\A p \in Parsed :
       (/\ p.error = NoError
        /\ \E faults \in SUBSET (1..MaxConcurrency) : Start(p, faults))
       => /\ p.cfg.concurrency \in 1..128
          /\ Len(runs') = Len(runs) + 1
          /\ Len(runs'[Len(runs')].workers) >= 1]_vars

----------------------------------------------------------------------------
(* Vocabulary of the properties of the pure functions *)

(* A decimal numeral of an octet, without sign, blank or leading zero *)
IsOctetText(t) ==
  /\ AllDigits(t)
  /\ DigitsValue(t, 0) <= 255
  /\ NatToText(DigitsValue(t, 0)) = t

(* A valid dotted-quad address *)
IsDottedQuad(text) ==
  LET parts == Split(text, {"."})
  IN Len(parts) = 4 /\ \A i \in 1..4 : IsOctetText(parts[i])

(* The numeric value of a valid dotted-quad address *)
QuadValue(text) ==
  LET parts == Split(text, {"."})
      v(i)  == DigitsValue(parts[i], 0)
  IN ((v(1) * 256 + v(2)) * 256 + v(3)) * 256 + v(4)

(* Exactly four dot-separated components, each a number within [0,255] *)
HasFourOctets(text) ==
  LET parts == Split(Trim(text), {"."})
  IN /\ Len(parts) = 4
     /\ \A i \in 1..4 :
          AllDigits(Trim(parts[i])) /\ DigitsValue(Trim(parts[i]), 0) <= 255

(* The ports a text names: the values of its comma/whitespace-separated    *)
(* tokens that are, as a whole token, a base-10 integer within [1,65535]   *)
WholeTokenPorts(text) ==
  LET tokens == Range(Split(text, {",", " "}))
  IN {DigitsValue(t, 0) :
        t \in {u \in tokens : /\ AllDigits(u)
                              /\ DigitsValue(u, 0) >= 1
                              /\ DigitsValue(u, 0) <= 65535}}

Called(fn) == call.fn = fn /\ call.done

(* The call is buildTargetList on two valid dotted-quad addresses *)
ExpandsValidRange ==
  /\ Called("buildTargetList")
  /\ IsDottedQuad(call.arg[1])
  /\ IsDottedQuad(call.arg[2])

----------------------------------------------------------------------------
(* C14: for valid dotted-quad addresses start <= end with                  *)
(* end - start + 1 <= 2048, buildTargetList returns end - start + 1        *)
(* addresses, the first is start, the last is end, and the i-th converts   *)
(* back to start + i - 1 (so the list is strictly ascending and numberToIp *)
(* followed by ipToNumber is the identity on the range).                   *)
C14_TargetListIsTheRange ==
  LET s == QuadValue(call.arg[1])
      e == QuadValue(call.arg[2])
      n == e - s + 1
  IN (ExpandsValidRange /\ s <= e /\ n <= 2048)
     => /\ call.out.ok
        /\ Len(call.out.list) = n
        /\ call.out.list[1] = call.arg[1]
        /\ call.out.list[n] = call.arg[2]
        /\ \A i \in 1..n :
             /\ IsDottedQuad(call.out.list[i])
             /\ ipToNumber(call.out.list[i]) = [ok |-> TRUE, value |-> s + i - 1]
             /\ numberToIp(s + i - 1) = call.out.list[i]
        /\ \A i \in 1..(n - 1) :
             QuadValue(call.out.list[i]) < QuadValue(call.out.list[i + 1])

(* C14 witness: 0.0.0.255 to 0.0.1.1 was expanded, across the carry into   *)
(* the third field                                                         *)
C14_Witness ==
  /\ Called("buildTargetList")
  /\ call.arg = <<Addr(0, 255), Addr(1, 1)>>
  /\ call.out.ok
  /\ call.out.list = <<Addr(0, 255), Addr(1, 0), Addr(1, 1)>>

(* C15: ipToNumber throws the invalid-address error for every text that    *)
(* does not have exactly four numeric dot-separated components or has a    *)
(* component outside [0,255], and buildTargetList returns no list for a    *)
(* boundary of that kind.                                                  *)
C15_MalformedAddressIsRejected ==
  /\ (Called("ipToNumber") /\ ~HasFourOctets(call.arg))
       => call.out = [ok |-> FALSE, error |-> ErrInvalidIp]
  /\ (/\ Called("buildTargetList")
      /\ ~HasFourOctets(call.arg[1]) \/ ~HasFourOctets(call.arg[2]))
       => call.out = [ok |-> FALSE, error |-> ErrInvalidIp]

(* C16: for valid boundary addresses buildTargetList fails exactly when    *)
(* end is below start, with the inverted-range error, or when              *)
(* end - start + 1 exceeds 2048, with the range-too-large error; 2048      *)
(* addresses are accepted and 2049 are not.                                *)
C16_RangeErrorsExactly ==
  LET s == QuadValue(call.arg[1])
      e == QuadValue(call.arg[2])
  IN ExpandsValidRange
     => /\ call.out.ok <=> (s <= e /\ e - s + 1 <= 2048)
        /\ e < s => call.out = [ok |-> FALSE, error |-> ErrInverted]
        /\ (s <= e /\ e - s + 1 > 2048)
             => call.out = [ok |-> FALSE, error |-> ErrTooLarge]
        /\ call.out.ok => Len(call.out.list) >= 1

(* C16 witness: a range of exactly 2048 addresses was accepted *)
C16_Witness ==
  /\ ExpandsValidRange
  /\ QuadValue(call.arg[2]) - QuadValue(call.arg[1]) + 1 = MAX_TARGETS
  /\ call.out.ok
  /\ Len(call.out.list) = MAX_TARGETS

(* C17: parsePorts returns, in strictly ascending order and without        *)
(* duplicates, exactly the values of the tokens that are as a whole a      *)
(* base-10 integer within [1,65535]; any other token contributes nothing.  *)
C17_OnlyWholeTokenPorts ==
  Called("parsePorts")
    => /\ call.out = SortedSeq(WholeTokenPorts(call.arg))
       /\ \A i \in 1..(Len(call.out) - 1) : call.out[i] < call.out[i + 1]

----------------------------------------------------------------------------
(* The workers of run r that have a host in flight *)
Busy(r) == {w \in 1..Len(runs[r].workers) : runs[r].workers[w].pc = "scan"}

(* C18: a run that passed validation launches exactly                      *)
(* min(concurrency, totalTargets) workers; a worker takes its next host    *)
(* only in the step that records its current one; so at any time at most   *)
(* min(concurrency, totalTargets) hosts of the run are in flight.          *)
C18_PoolIsMinOfConcurrencyAndTargets ==
  [][/\ \A p \in Parsed :
          (/\ p.error = NoError
           /\ \E faults \in SUBSET (1..MaxConcurrency) : Start(p, faults))
          => /\ Len(runs') = Len(runs) + 1
             /\ Len(runs'[Len(runs')].workers)
                  = Min(p.cfg.concurrency, Len(p.targets))
     /\ \A r \in RunIds :
          /\ runs[r].active =>
               Cardinality(Busy(r))
                 <= Min(runs[r].concurrency, Len(runs[r].targets))
          /\ \A w \in 1..Len(runs[r].workers) :
               (/\ runs[r].workers[w].pc = "scan"
                /\ runs'[r].workers[w].ip # runs[r].workers[w].ip)
               => /\ Len(results') = Len(results) + 1
                  /\ results'[Len(results')].ip = runs[r].workers[w].ip
                  /\ \A i \in 1..Len(runs[r].ports) :
                       results'[Len(results')].ports[i].status # "pending"]_vars

----------------------------------------------------------------------------
(* Run r has ended: none of its workers is active, the page accepts a new  *)
(* start, and it ended as Completed if cancel() was never called during it *)
(* and as Cancelled otherwise.                                             *)
EndedAsClaimed(r) ==
  /\ r \in RunIds
  /\ ~runs[r].active
  /\ Busy(r) = {}
  /\ ~isScanning
  /\ runs[r].outcome = IF runs[r].cancelled THEN "cancelled" ELSE "completed"

(* C19: with every probe settling eventually and the workers scheduled     *)
(* fairly, every run that passed validation eventually ends: no worker of  *)
(* it active, a new start accepted, Completed if cancel() was never called *)
(* and Cancelled otherwise.                                                *)
C19_EveryRunEndsAsClaimed ==
  \A r \in 1..MaxRuns : (r \in RunIds) ~> EndedAsClaimed(r)

(* C20: a probe whose controller was aborted by cancel() or by the         *)
(* teardown of a run, not by its own deadline, is not recorded in the      *)
(* result store with status timeout.                                       *)
C20_CancelledProbeIsNotATimeout ==
  [][\A r \in RunIds : \A w \in 1..Len(runs[r].workers) : \A i \in 1..2 :
       (/\ <<r, w, i>> \in aborted
        /\ \E outcome \in FetchOutcomes, fault \in BOOLEAN :
             ProbeSettle(r, w, i, outcome, fault)
        /\ Len(results') > Len(results))
       => results'[Len(results')].ports[i].status # "timeout"]_vars

----------------------------------------------------------------------------
(* A port result has a latency exactly when it is open, an error message   *)
(* exactly when it is in error, and the https hint exactly on 443, 8443    *)
(* and 9443.                                                               *)
WellFormedPortResult(pr) ==
  /\ pr.latency # Undefined <=> pr.status = "open"
  /\ pr.errorMessage # Undefined <=> pr.status = "error"
  /\ pr.protocol = "https" <=> pr.port \in {443, 8443, 9443}

(* Ports around the three secure ones and at the ends of the port range *)
HintPorts ==
  {1, 80, 442, 443, 444, 8080, 8442, 8443, 8444, 9442, 9443, 9444, MAX_PORT}

(* C21: every port result in the result store, of the success path, the    *)
(* failure path and the fault path, has a latency iff it is open, an error *)
(* message iff it is in error and the https hint iff its port is 443, 8443 *)
(* or 9443; and so has what scanPort and the catch branch build for the    *)
(* ports around the secure ones.                                           *)
C21_PortResultsAreWellFormed ==
  /\ \A k \in 1..Len(results) : \A i \in 1..Len(results[k].ports) :
       /\ results[k].ports[i].status \in {"open", "closed", "timeout", "error"}
       /\ WellFormedPortResult(results[k].ports[i])
  /\ \A port \in HintPorts :
       /\ \A outcome \in FetchOutcomes :
            WellFormedPortResult(scanPort(port, outcome))
       /\ WellFormedPortResult(failedHost(NoIp, <<port>>, "Fault").ports[1])

(* C21 witness: the store holds a host probed on 80 and 443 with port 80   *)
(* in error, with its message, and port 443 open, with its latency         *)
C21_Witness ==
  \E k \in 1..Len(results) :
    /\ Len(results[k].ports) = 2
    /\ results[k].ports[1].port = 80
    /\ results[k].ports[1].status = "error"
    /\ results[k].ports[1].errorMessage = MessageOf("OtherError")
    /\ results[k].ports[2].port = 443
    /\ results[k].ports[2].protocol = "https"
    /\ results[k].ports[2].status = "open"
    /\ results[k].ports[2].latency # Undefined

====
